---- MODULE Spec2Model ----
(***************************************************************************)
(* The caching layer of github-manager's GhRunner (src/ghm/runner.py).     *)
(*                                                                         *)
(* GhRunner owns one Cache, loaded in __init__ and stored in __del__.      *)
(* Lookup methods carry @cache (read-through), mutating methods carry      *)
(* @invalidate (run, then purge), a few methods carry neither.  The module *)
(* ghm.cache itself (Cache, cache, invalidate) is not part of the sources  *)
(* at hand; it is modelled from sections 4.1 to 4.5 of the specification.  *)
(***************************************************************************)
EXTENDS Integers, Sequences, FiniteSets, TLC

\* ------------------------------------------------------------- bounds
\* Calls made on the runner in a behaviour, over all its process runs.
MaxCalls == 3

\* ------------------------------------------------------ python values
\* An argument value: its python type and its text.
PyStr(s) == [t |-> "str", v |-> s]
PyInt(s) == [t |-> "int", v |-> s]
PyBool(s) == [t |-> "bool", v |-> s]
PyNone == [t |-> "NoneType", v |-> "None"]
PyList(s) == [t |-> "list", v |-> s]

\* A result value: its python type, its content, and the generation of the
\* remote state (GitHub) the content was read from.
Val(t, v, g) == [t |-> t, v |-> v, g |-> g]
NoneVal == Val("NoneType", <<>>, 0)
CalledProcessError == Val("CalledProcessError", <<>>, 0)
UnsupportedArgumentType == Val("UnsupportedArgumentType", <<>>, 0)

Repos == {PyStr("acme/widgets")}
Numbers == {PyInt("42"), PyInt("7")}

\* A call as written at the call site: positional arguments in order, then
\* named arguments as (name, value) pairs in the order written.
Form(pos, named) == [pos |-> pos, named |-> named]

\* ----------------------------------------------------------- signatures
\* The parameters of each method after self, in order.
Params(op) ==
    CASE op = "help" -> <<>>
      [] op = "pr_get" -> <<"repo", "number">>
      [] op = "pr_list" -> <<"repo", "filter", "merge_state">>
      [] op = "pr_approve" -> <<"repo", "number">>
      [] op = "pr_open" -> <<"repo", "number">>
      [] op = "pr_merge" -> <<"repo", "number", "admin">>
      [] op = "pr_update_branch" -> <<"repo", "number">>
      [] op = "_fetch_action_job_by_id" -> <<"repo", "id">>
      [] op = "action_run_rerun" -> <<"repo", "number">>
      [] op = "workflow_list" -> <<"repo">>
      [] op = "workflow_run" -> <<"repo", "name">>
      [] op = "fetch_draft_release" -> <<"repo">>
      [] op = "fetch_latest_release" -> <<"repo">>
      [] op = "release_publish" -> <<"repo", "id", "tag">>

\* The default of a parameter that has one (only pr_list's filter and
\* merge_state do).
Default(op, p) == PyNone

\* Python's binding of a call's arguments to the parameters of op.
Named(a, p) == {i \in 1..Len(a.named) : a.named[i][1] = p}

Bind(op, a) ==
    [i \in 1..Len(Params(op)) |->
        IF i <= Len(a.pos) THEN a.pos[i]
        ELSE IF Named(a, Params(op)[i]) # {}
             THEN a.named[CHOOSE j \in Named(a, Params(op)[i]) : TRUE][2]
             ELSE Default(op, Params(op)[i])]

\* ------------------------------------------------------------ KeyBuilder
RECURSIVE Fold(_, _, _)
Fold(op, b, i) ==
    IF i > Len(b) THEN <<>>
    ELSE <<Params(op)[i], b[i].t, b[i].v>> \o Fold(op, b, i + 1)

\* build(operationName, positionalArgs, namedArgs): the operation's name,
\* then every parameter in signature order with its type and text.
build(op, a) == <<op>> \o Fold(op, Bind(op, a), 1)

\* The argument types a key can be derived from; build fails with
\* UnsupportedArgumentType on a call that binds any other.
Primitive(x) == x.t \in {"str", "int", "bool", "NoneType"}

Canonicalizable(op, a) == \A i \in 1..Len(Params(op)) : Primitive(Bind(op, a)[i])

\* ------------------------------------------------------------ CacheStore
EmptyStore == <<>>

Put(st, k, x) == [y \in DOMAIN st \cup {k} |-> IF y = k THEN x ELSE st[y]]

\* json.dump: dicts are objects, lists and tuples are arrays, None is null.
ToJson(x) ==
    CASE x.t = "dict" -> [j |-> "object", v |-> x.v, g |-> x.g]
      [] x.t = "list" -> [j |-> "array", v |-> x.v, g |-> x.g]
      [] x.t = "tuple" -> [j |-> "array", v |-> x.v, g |-> x.g]
      [] x.t = "NoneType" -> [j |-> "null", v |-> x.v, g |-> x.g]
      [] OTHER -> [j |-> "TypeError", v |-> <<>>, g |-> 0]

\* json.load: objects are dicts, arrays are lists, null is None.
FromJson(x) ==
    CASE x.j = "object" -> Val("dict", x.v, x.g)
      [] x.j = "array" -> Val("list", x.v, x.g)
      [] x.j = "null" -> Val("NoneType", x.v, x.g)
      [] OTHER -> Val("JSONDecodeError", <<>>, 0)

NoFile == [kind |-> "absent", obj |-> <<>>]
Malformed == [kind |-> "malformed", obj |-> <<>>]

\* store(): the full map, serialized, replaces the persisted file.
Cache_store(st) == [kind |-> "json", obj |-> [k \in DOMAIN st |-> ToJson(st[k])]]

\* load(): the persisted file's map; empty when absent or unparsable.
Cache_load(f) ==
    IF f.kind = "json" THEN [k \in DOMAIN f.obj |-> FromJson(f.obj[k])]
    ELSE EmptyStore

\* ------------------------------------------------------------- outcomes
\* What a call yields: whether it returned (ok) or raised, the value returned
\* or the exception raised, the method bodies that began executing, the
\* external commands that ran (subprocess.run), the keys whose lookup
\* returned a value, the store afterwards, and the number of commands that
\* changed the remote state.
Out(ok, value, invoked, ran, keys, st, mut) ==
    [ok |-> ok, value |-> value, invoked |-> invoked, ran |-> ran,
     keys |-> keys, store |-> st, mut |-> mut]

\* The inputs of a call that the program does not decide: whether its first
\* and its second command succeed (exit status 0, output parsed), whether
\* the repository has a draft release, and the remote state's generation.
Env(ok, ok2, draft, g) == [ok |-> ok, ok2 |-> ok2, draft |-> draft, g |-> g]

\* subprocess.run(cmd, capture_output=True, check=True) as a method's only
\* command: the method returns x when the command succeeds and raises
\* CalledProcessError when it does not.
Run(op, st, cmd, ok, x, mut) ==
    IF ok THEN Out(TRUE, x, <<op>>, <<cmd>>, {}, st, mut)
    ELSE Out(FALSE, CalledProcessError, <<op>>, <<cmd>>, {}, st, 0)

\* ----------------------------------------------- the wrappers (ghm.cache)
\* cache: when no key can be derived the call fails and f is not invoked;
\* on a hit the stored value, and f is not invoked; on a miss f's outcome
\* r, stored under the key when f returned.
cache(op, st, a, r) ==
    LET key == build(op, a)
    IN  IF ~Canonicalizable(op, a)
        THEN Out(FALSE, UnsupportedArgumentType, <<>>, <<>>, {}, st, 0)
        ELSE IF key \in DOMAIN st
        THEN Out(TRUE, st[key], <<>>, <<>>, {key}, st, 0)
        ELSE IF r.ok
             THEN [r EXCEPT !.store = Put(r.store, key, r.value),
                            !.keys = @ \cup {key}]
             ELSE r

\* invalidate: f always runs (r is its outcome); the store is purged once f
\* has returned, and left as f left it when f raised.
invalidate(r) == IF r.ok THEN [r EXCEPT !.store = EmptyStore] ELSE r

\* --------------------------------------------------- GhRunner's methods
Truthy(x) == ~(x.t = "NoneType" \/ x.v = "" \/ (x.t = "bool" /\ x.v = "False"))

list_json_fields ==
    "author,number,state,title,url,reviewDecision,statusCheckRollup,mergeable,mergeStateStatus"

help_f(st, a, env) ==
    Run("help", st, <<"gh", "help">>, env.ok, Val("bytes", <<"usage">>, 0), 0)

help(st, a, env) == help_f(st, a, env)

pr_get_f(st, a, env) ==
    Run("pr_get", st,
        <<"gh", "pr", "view", "--json", list_json_fields, "-R",
          Bind("pr_get", a)[1].v, Bind("pr_get", a)[2].v>>,
        env.ok, Val("dict", <<"number", Bind("pr_get", a)[2].v>>, env.g), 0)

\* pr_get storing its result and never consulting the store.
pr_get_always_runs(st, a, env) ==
    cache("pr_get", EmptyStore, a, pr_get_f(st, a, env))

\* pr_get storing whatever its body yields, an exception included.
pr_get_caches_failure(st, a, env) ==
    LET r == cache("pr_get", st, a, pr_get_f(st, a, env))
    IN  IF r.ok THEN r
        ELSE [r EXCEPT !.store = Put(st, build("pr_get", a), r.value)]

\* pr_get cached under pr_open's name: the two methods share their keys.
pr_get_keyed_as_pr_open(st, a, env) ==
    cache("pr_open", st, a, pr_get_f(st, a, env))

\* pr_get without its decorator: the body runs whatever the arguments are.
pr_get_unchecked(st, a, env) == pr_get_f(st, a, env)

pr_get(st, a, env) == cache("pr_get", st, a, pr_get_f(st, a, env))

\* str.startswith('!'), s[1:] and str.upper() on the merge states in use.
startswith_bang(s) == s \in {"!clean", "!dirty"}

tail1(s) == CASE s = "!clean" -> "clean" [] s = "!dirty" -> "dirty" [] OTHER -> s

upper(s) == CASE s = "clean" -> "CLEAN" [] s = "dirty" -> "DIRTY" [] OTHER -> s

pr_list_cmd(a) ==
    LET filter == Bind("pr_list", a)[2]
        merge_state == Bind("pr_list", a)[3]
    IN  <<"gh", "pr", "list", "-R", Bind("pr_list", a)[1].v,
          "--json", list_json_fields>>
        \o (IF Truthy(filter) THEN <<"--search", filter.v>> ELSE <<>>)
        \o (IF Truthy(merge_state)
            THEN <<"-q", "[.[] | select(.mergeStateStatus",
                   IF startswith_bang(merge_state.v) THEN "!=" ELSE "==",
                   upper(IF startswith_bang(merge_state.v)
                         THEN tail1(merge_state.v) ELSE merge_state.v)>>
            ELSE <<>>)

pr_list_f(st, a, env) ==
    Run("pr_list", st, pr_list_cmd(a), env.ok,
        Val("list", pr_list_cmd(a), env.g), 0)

\* pr_list without its decorator: the result is returned and not stored.
pr_list_uncached(st, a, env) == pr_list_f(st, a, env)

\* The call as written: the positional values in order, then the named
\* arguments in the order the caller wrote them.
KeyAsWritten(op, a) ==
    <<op>>
    \o [i \in 1..(2 * Len(a.pos)) |->
           IF i % 2 = 1 THEN a.pos[(i + 1) \div 2].t ELSE a.pos[i \div 2].v]
    \o [i \in 1..(3 * Len(a.named)) |->
           IF i % 3 = 1 THEN a.named[(i + 2) \div 3][1]
           ELSE IF i % 3 = 2 THEN a.named[(i + 1) \div 3][2].t
           ELSE a.named[i \div 3][2].v]

\* pr_list cached under the call as written instead of the bound
\* parameters.
pr_list_keyed_as_written(st, a, env) ==
    LET key == KeyAsWritten("pr_list", a)
        r == pr_list_f(st, a, env)
    IN  IF ~Canonicalizable("pr_list", a)
        THEN Out(FALSE, UnsupportedArgumentType, <<>>, <<>>, {}, st, 0)
        ELSE IF key \in DOMAIN st
        THEN Out(TRUE, st[key], <<>>, <<>>, {key}, st, 0)
        ELSE IF r.ok
             THEN [r EXCEPT !.store = Put(r.store, key, r.value),
                            !.keys = @ \cup {key}]
             ELSE r

pr_list(st, a, env) == cache("pr_list", st, a, pr_list_f(st, a, env))

pr_approve_f(st, a, env) ==
    Run("pr_approve", st,
        <<"gh", "pr", "review", "-R", Bind("pr_approve", a)[1].v,
          Bind("pr_approve", a)[2].v, "--approve">>,
        env.ok, Val("tuple", <<"stdout", "stderr">>, env.g), 1)

\* pr_approve without its decorator: nothing is purged.
pr_approve_unpurged(st, a, env) == pr_approve_f(st, a, env)

\* pr_approve under the lookup decorator: a repeated approval is a hit.
pr_approve_cached(st, a, env) ==
    cache("pr_approve", st, a, pr_approve_f(st, a, env))

pr_approve(st, a, env) == invalidate(pr_approve_f(st, a, env))

pr_open_f(st, a, env) ==
    Run("pr_open", st,
        <<"gh", "pr", "view", "-R", Bind("pr_open", a)[1].v,
          Bind("pr_open", a)[2].v, "-w">>,
        env.ok, NoneVal, 0)

pr_open(st, a, env) == cache("pr_open", st, a, pr_open_f(st, a, env))

pr_merge_f(st, a, env) ==
    Run("pr_merge", st,
        <<"gh", "pr", "merge", "-R", Bind("pr_merge", a)[1].v,
          Bind("pr_merge", a)[2].v, "-m">>
        \o (IF Truthy(Bind("pr_merge", a)[3]) THEN <<"--admin">> ELSE <<>>),
        env.ok, Val("tuple", <<"stdout", "stderr">>, env.g), 1)

\* pr_merge purging whether or not the merge succeeded.
pr_merge_purge_always(st, a, env) ==
    [pr_merge_f(st, a, env) EXCEPT !.store = EmptyStore]

pr_merge(st, a, env) == invalidate(pr_merge_f(st, a, env))

pr_update_branch_f(st, a, env) ==
    Run("pr_update_branch", st,
        <<"gh", "api", "-X", "PUT", "-H",
          "Accept: application/vnd.github.lydian-preview+json",
          "/repos/", Bind("pr_update_branch", a)[1].v, "/pulls/",
          Bind("pr_update_branch", a)[2].v, "/update-branch">>,
        env.ok, Val("dict", <<"message", "Updating pull request branch.">>, env.g), 1)

pr_update_branch(st, a, env) == invalidate(pr_update_branch_f(st, a, env))

_fetch_action_job_by_id_f(st, a, env) ==
    Run("_fetch_action_job_by_id", st,
        <<"gh", "api", "/repos/", Bind("_fetch_action_job_by_id", a)[1].v,
          "/actions/jobs/", Bind("_fetch_action_job_by_id", a)[2].v>>,
        env.ok,
        Val("dict", <<"id", Bind("_fetch_action_job_by_id", a)[2].v,
                      "run_id", "900">>, env.g), 0)

_fetch_action_job_by_id(st, a, env) ==
    cache("_fetch_action_job_by_id", st, a, _fetch_action_job_by_id_f(st, a, env))

\* job = self._fetch_action_job_by_id(repo, number), then the rerun command
\* on job['run_id'] (the fourth item of the job's content here).
action_run_rerun_f(st, a, env) ==
    LET job == _fetch_action_job_by_id(st,
                   Form(<<Bind("action_run_rerun", a)[1],
                          Bind("action_run_rerun", a)[2]>>, <<>>), env)
        cmd == <<"gh", "run", "rerun", "-R",
                 Bind("action_run_rerun", a)[1].v, job.value.v[4]>>
    IN  IF ~job.ok
        THEN [job EXCEPT !.invoked = <<"action_run_rerun">> \o @]
        ELSE IF env.ok2
             THEN Out(TRUE, Val("tuple", <<"stdout", "stderr">>, env.g),
                      <<"action_run_rerun">> \o job.invoked,
                      job.ran \o <<cmd>>, job.keys, job.store, 1)
             ELSE Out(FALSE, CalledProcessError,
                      <<"action_run_rerun">> \o job.invoked,
                      job.ran \o <<cmd>>, job.keys, job.store, 0)

\* action_run_rerun purging before its body runs instead of after.
action_run_rerun_purge_first(st, a, env) ==
    action_run_rerun_f(EmptyStore, a, env)

action_run_rerun(st, a, env) == invalidate(action_run_rerun_f(st, a, env))

\* workflow_list's body building a tuple instead of a list.
workflow_list_f_tuple(st, a, env) ==
    Run("workflow_list", st,
        <<"gh", "workflow", "list", "-R", Bind("workflow_list", a)[1].v>>,
        env.ok, Val("tuple", <<"ci", "release">>, env.g), 0)

workflow_list_f(st, a, env) ==
    Run("workflow_list", st,
        <<"gh", "workflow", "list", "-R", Bind("workflow_list", a)[1].v>>,
        env.ok, Val("list", <<"ci", "release">>, env.g), 0)

workflow_list(st, a, env) ==
    cache("workflow_list", st, a, workflow_list_f(st, a, env))

workflow_run_f(st, a, env) ==
    Run("workflow_run", st,
        <<"gh", "workflow", "run", "-R", Bind("workflow_run", a)[1].v,
          Bind("workflow_run", a)[2].v>>,
        env.ok, Val("tuple", <<"stdout", "stderr">>, env.g), 1)

\* workflow_run under the invalidating decorator, as the other mutating
\* methods are.
workflow_run_invalidating(st, a, env) == invalidate(workflow_run_f(st, a, env))

workflow_run(st, a, env) == workflow_run_f(st, a, env)

\* The first release with release['draft'], or None by falling off the loop.
fetch_draft_release_f(st, a, env) ==
    Run("fetch_draft_release", st,
        <<"gh", "api", "/repos/", Bind("fetch_draft_release", a)[1].v,
          "/releases">>,
        env.ok,
        IF env.draft THEN Val("dict", <<"draft", "true">>, env.g) ELSE NoneVal, 0)

\* fetch_draft_release without its decorator.
fetch_draft_release_uncached(st, a, env) == fetch_draft_release_f(st, a, env)

fetch_draft_release(st, a, env) ==
    cache("fetch_draft_release", st, a, fetch_draft_release_f(st, a, env))

fetch_latest_release_f(st, a, env) ==
    Run("fetch_latest_release", st,
        <<"gh", "release", "list", "-R",
          Bind("fetch_latest_release", a)[1].v, "-L", "2">>,
        env.ok, Val("list", <<"v1.1", "v1.0">>, env.g), 0)

fetch_latest_release(st, a, env) == fetch_latest_release_f(st, a, env)

release_publish_f(st, a, env) ==
    Run("release_publish", st,
        <<"gh", "api", "/repos/", Bind("release_publish", a)[1].v,
          "/releases/", Bind("release_publish", a)[2].v,
          "-X", "PATCH", "-F", "draft=false", "-F", "tag_name=v",
          Bind("release_publish", a)[3].v>>,
        env.ok, Val("dict", <<"draft", "false">>, env.g), 1)

release_publish(st, a, env) == invalidate(release_publish_f(st, a, env))

\* ---------------------------------------------------------------- state
VARIABLES
    phase,       \* "up" while the process's GhRunner exists, else "down"
    self_cache,  \* GhRunner._cache: the in-memory map, key -> value
    file,        \* the persisted file
    gen,         \* the generation of the remote state
    calls,       \* calls made on the runner
    last,        \* the latest call in this run: method, arguments, outcome
    looked,      \* keys whose lookup returned since the run began or last purged
    purged,      \* an invalidating method has returned in this run
    prevRun,     \* the map the previous run held when it ended
    prevEnd,     \* how the previous run ended: "none", "stored", "lost"
    tmp,         \* the temporary file of a store() under way
    peer         \* a second process on the same file: its runner and history

vars == <<phase, self_cache, file, gen, calls, last, looked, purged,
          prevRun, prevEnd, tmp, peer>>

\* No call yet in this run.  A call's "after" tells what it follows: the
\* same call (method and arguments) that returned or raised, or another.
NoCall ==
    [op |-> "", a |-> Form(<<>>, <<>>), ok |-> TRUE, value |-> NoneVal,
     invoked |-> <<>>, ran |-> <<>>, after |-> "other"]

\* The methods by decorator, as the claims name them.
ReadThroughOps ==
    {"pr_get", "pr_list", "pr_open", "_fetch_action_job_by_id",
     "workflow_list", "fetch_draft_release"}

InvalidationOps ==
    {"pr_approve", "pr_merge", "pr_update_branch", "action_run_rerun",
     "release_publish"}

\* The call sites' argument lists.
RepoNumber == {Form(<<r, n>>, <<>>) : r \in Repos, n \in Numbers}

\* The call sites that pass one fixed PR or job number.
OneNumber == {Form(<<r, PyInt("42")>>, <<>>) : r \in Repos}

RepoOnly == {Form(<<r>>, <<>>) : r \in Repos}

PrListForms ==
    RepoOnly
    \cup {Form(<<r>>, <<<<"merge_state", PyStr("!clean")>>>>) : r \in Repos}

PrMergeForms ==
    {Form(<<r, n, b>>, <<>>) :
        r \in Repos, n \in {PyInt("42")}, b \in {PyBool("True"), PyBool("False")}}

WorkflowRunForms == {Form(<<r, PyStr("ci")>>, <<>>) : r \in Repos}

ReleasePublishForms == {Form(<<r, PyInt("5"), PyStr("1.2.0")>>, <<>>) : r \in Repos}

\* A process that has made no runner yet.
NotStarted ==
    [phase |-> "down", self_cache |-> EmptyStore, last |-> NoCall,
     looked |-> {}, purged |-> FALSE, prevRun |-> EmptyStore,
     prevEnd |-> "none", tmp |-> NoFile]

Init ==
    /\ phase = "down"
    /\ self_cache = EmptyStore
    /\ file \in {NoFile, Malformed}
    /\ gen = 0
    /\ calls = 0
    /\ last = NoCall
    /\ looked = {}
    /\ purged = FALSE
    /\ prevRun = EmptyStore
    /\ prevEnd = "none"
    /\ tmp = NoFile
    /\ peer = NotStarted

\* ------------------------------------------------------------ lifecycle
\* __init__ making the Cache and never loading it.
GhRunner_init_noload ==
    /\ phase = "down"
    /\ phase' = "up"
    /\ self_cache' = EmptyStore
    /\ last' = NoCall
    /\ looked' = {}
    /\ purged' = FALSE
    /\ UNCHANGED <<file, gen, calls, prevRun, prevEnd, tmp, peer>>

\* __init__ whose load() raises on an unparsable file: no runner is made.
GhRunner_init_strict ==
    /\ phase = "down"
    /\ file.kind # "malformed"
    /\ phase' = "up"
    /\ self_cache' = Cache_load(file)
    /\ last' = NoCall
    /\ looked' = {}
    /\ purged' = FALSE
    /\ UNCHANGED <<file, gen, calls, prevRun, prevEnd, tmp, peer>>

\* GhRunner(): __init__ makes the Cache and loads it.
GhRunner_init ==
    /\ phase = "down"
    /\ phase' = "up"
    /\ self_cache' = Cache_load(file)
    /\ last' = NoCall
    /\ looked' = {}
    /\ purged' = FALSE
    /\ UNCHANGED <<file, gen, calls, prevRun, prevEnd, tmp, peer>>

\* __del__: the finalizer stores the cache; the runner is gone.
GhRunner_del ==
    /\ phase = "up"
    /\ file' = Cache_store(self_cache)
    /\ phase' = "down"
    /\ prevRun' = self_cache
    /\ prevEnd' = "stored"
    /\ self_cache' = EmptyStore
    /\ last' = NoCall
    /\ looked' = {}
    /\ purged' = FALSE
    /\ UNCHANGED <<gen, calls, tmp, peer>>

\* The process ends and the finalizer does not run: python does not
\* guarantee __del__ for objects alive at interpreter exit, and a killed
\* process runs none.
ExitUnfinalized ==
    /\ phase = "up"
    /\ phase' = "down"
    /\ prevRun' = self_cache
    /\ prevEnd' = "lost"
    /\ self_cache' = EmptyStore
    /\ last' = NoCall
    /\ looked' = {}
    /\ purged' = FALSE
    /\ UNCHANGED <<file, gen, calls, tmp, peer>>

\* check_requirements(): GhRunner().help() on a runner of its own, which
\* loads the file, runs help, and stores what it loaded when it is dropped.
check_requirements ==
    /\ file' = Cache_store(Cache_load(file))
    /\ UNCHANGED <<phase, self_cache, gen, calls, last, looked, purged,
                   prevRun, prevEnd, tmp, peer>>

\* ----------------------------------------------------------------- calls
\* A call of method op with arguments a whose outcome is r.
Call(op, a, r) ==
    /\ phase = "up"
    /\ calls < MaxCalls
    /\ calls' = calls + 1
    /\ self_cache' = r.store
    /\ gen' = gen + r.mut
    /\ last' = [op |-> op, a |-> a, ok |-> r.ok, value |-> r.value,
                invoked |-> r.invoked, ran |-> r.ran,
                after |-> IF last.op = op /\ last.a = a
                          THEN IF last.ok THEN "same_returned" ELSE "same_raised"
                          ELSE "other"]
    /\ looked' = IF op \in InvalidationOps /\ r.ok THEN {} ELSE looked \cup r.keys
    /\ purged' = (purged \/ (op \in InvalidationOps /\ r.ok))
    /\ UNCHANGED <<phase, file, prevRun, prevEnd, tmp, peer>>

Help ==
    \E ok \in BOOLEAN :
        Call("help", Form(<<>>, <<>>),
             help(self_cache, Form(<<>>, <<>>), Env(ok, TRUE, TRUE, gen)))

PrGet ==
    \E a \in RepoNumber, ok \in BOOLEAN :
        Call("pr_get", a, pr_get(self_cache, a, Env(ok, TRUE, TRUE, gen)))

PrList ==
    \E a \in PrListForms, ok \in BOOLEAN :
        Call("pr_list", a, pr_list(self_cache, a, Env(ok, TRUE, TRUE, gen)))

PrApprove ==
    \E a \in OneNumber, ok \in BOOLEAN :
        Call("pr_approve", a, pr_approve(self_cache, a, Env(ok, TRUE, TRUE, gen)))

PrOpen ==
    \E a \in OneNumber, ok \in BOOLEAN :
        Call("pr_open", a, pr_open(self_cache, a, Env(ok, TRUE, TRUE, gen)))

PrMerge ==
    \E a \in PrMergeForms, ok \in BOOLEAN :
        Call("pr_merge", a, pr_merge(self_cache, a, Env(ok, TRUE, TRUE, gen)))

PrUpdateBranch ==
    \E a \in OneNumber, ok \in BOOLEAN :
        Call("pr_update_branch", a,
             pr_update_branch(self_cache, a, Env(ok, TRUE, TRUE, gen)))

FetchActionJobById ==
    \E a \in OneNumber, ok \in BOOLEAN :
        Call("_fetch_action_job_by_id", a,
             _fetch_action_job_by_id(self_cache, a, Env(ok, TRUE, TRUE, gen)))

ActionRunRerun ==
    \E a \in OneNumber, ok \in BOOLEAN, ok2 \in BOOLEAN :
        Call("action_run_rerun", a,
             action_run_rerun(self_cache, a, Env(ok, ok2, TRUE, gen)))

WorkflowList ==
    \E a \in RepoOnly, ok \in BOOLEAN :
        Call("workflow_list", a,
             workflow_list(self_cache, a, Env(ok, TRUE, TRUE, gen)))

WorkflowRun ==
    \E a \in WorkflowRunForms, ok \in BOOLEAN :
        Call("workflow_run", a,
             workflow_run(self_cache, a, Env(ok, TRUE, TRUE, gen)))

FetchDraftRelease ==
    \E a \in RepoOnly, ok \in BOOLEAN, draft \in BOOLEAN :
        Call("fetch_draft_release", a,
             fetch_draft_release(self_cache, a, Env(ok, TRUE, draft, gen)))

FetchLatestRelease ==
    \E a \in RepoOnly, ok \in BOOLEAN :
        Call("fetch_latest_release", a,
             fetch_latest_release(self_cache, a, Env(ok, TRUE, TRUE, gen)))

ReleasePublish ==
    \E a \in ReleasePublishForms, ok \in BOOLEAN :
        Call("release_publish", a,
             release_publish(self_cache, a, Env(ok, TRUE, TRUE, gen)))

Next ==
    \/ GhRunner_init
    \/ GhRunner_del
    \/ ExitUnfinalized
    \/ check_requirements
    \/ Help
    \/ PrGet
    \/ PrList
    \/ PrApprove
    \/ PrOpen
    \/ PrMerge
    \/ PrUpdateBranch
    \/ FetchActionJobById
    \/ ActionRunRerun
    \/ WorkflowList
    \/ WorkflowRun
    \/ FetchDraftRelease
    \/ FetchLatestRelease
    \/ ReleasePublish

Spec == Init /\ [][Next]_vars

\* ------------------------------------------- the calls, written every way
\* pr_list's call sites with the optional arguments elided, passed by
\* position, and passed by name in either order.
PrListWritten ==
    UNION {{Form(<<r>>, <<>>),
            Form(<<r, PyNone, PyNone>>, <<>>),
            Form(<<r>>, <<<<"filter", PyNone>>, <<"merge_state", PyNone>>>>),
            Form(<<r>>, <<<<"merge_state", PyNone>>, <<"filter", PyNone>>>>),
            Form(<<r>>, <<<<"filter", PyStr("bug")>>, <<"merge_state", PyStr("!clean")>>>>),
            Form(<<r>>, <<<<"merge_state", PyStr("!clean")>>, <<"filter", PyStr("bug")>>>>),
            Form(<<>>, <<<<"merge_state", PyStr("!clean")>>, <<"repo", r>>>>),
            Form(<<r>>, <<<<"filter", PyList("[bug]")>>>>)} : r \in Repos}

\* pr_get's call sites with the number as an int, as a str, by name, and
\* as a list.
PrGetWritten ==
    UNION {{Form(<<r, PyInt("42")>>, <<>>),
            Form(<<r, PyStr("42")>>, <<>>),
            Form(<<r>>, <<<<"number", PyInt("42")>>>>),
            Form(<<>>, <<<<"number", PyInt("42")>>, <<"repo", r>>>>),
            Form(<<r, PyList("[42]")>>, <<>>)} : r \in Repos}

PrListWrittenAnyWay ==
    \E a \in PrListWritten, ok \in BOOLEAN :
        Call("pr_list", a, pr_list(self_cache, a, Env(ok, TRUE, TRUE, gen)))

PrGetWrittenAnyWay ==
    \E a \in PrGetWritten, ok \in BOOLEAN :
        Call("pr_get", a, pr_get(self_cache, a, Env(ok, TRUE, TRUE, gen)))

KeyNext ==
    \/ GhRunner_init
    \/ GhRunner_del
    \/ PrListWrittenAnyWay
    \/ PrGetWrittenAnyWay
    \/ PrOpen
    \/ FetchActionJobById
    \/ PrApprove

KeySpec == Init /\ [][KeyNext]_vars

\* ------------------------------------ store() in steps, and two processes
\* A file that is being written.
Partial == [kind |-> "partial", obj |-> <<>>]

\* store() writing over the persisted file itself.
store_write_in_place ==
    /\ phase = "up"
    /\ phase' = "storing"
    /\ file' = Partial
    /\ UNCHANGED <<self_cache, tmp, gen, calls, last, looked, purged,
                   prevRun, prevEnd, peer>>

\* __del__ calls store(), which begins to write the map to a temporary
\* file.
store_write_temp ==
    /\ phase = "up"
    /\ phase' = "storing"
    /\ tmp' = Partial
    /\ UNCHANGED <<self_cache, file, gen, calls, last, looked, purged,
                   prevRun, prevEnd, peer>>

\* The temporary file holds the whole map, serialized.
store_close_temp ==
    /\ phase = "storing"
    /\ tmp = Partial
    /\ tmp' = Cache_store(self_cache)
    /\ UNCHANGED <<phase, self_cache, file, gen, calls, last, looked, purged,
                   prevRun, prevEnd, peer>>

\* store() putting into the file what the file held and what the map
\* holds.
store_rename_merging ==
    /\ phase = "storing"
    /\ tmp.kind = "json"
    /\ file' = [kind |-> "json",
                obj |-> [k \in DOMAIN tmp.obj \cup DOMAIN Cache_store(Cache_load(file)).obj |->
                            IF k \in DOMAIN tmp.obj THEN tmp.obj[k] ELSE file.obj[k]]]
    /\ phase' = "down"
    /\ prevRun' = self_cache
    /\ prevEnd' = "stored"
    /\ peer' = [peer EXCEPT !.prevEnd = IF @ = "stored" THEN "stored_before" ELSE @]
    /\ self_cache' = EmptyStore
    /\ last' = NoCall
    /\ looked' = {}
    /\ purged' = FALSE
    /\ tmp' = NoFile
    /\ UNCHANGED <<gen, calls>>

\* The temporary file is renamed into place, store() and __del__ return,
\* and the runner is gone.  A process that had stored before is no longer
\* the one that stored last.
store_rename ==
    /\ phase = "storing"
    /\ tmp.kind = "json"
    /\ file' = tmp
    /\ phase' = "down"
    /\ prevRun' = self_cache
    /\ prevEnd' = "stored"
    /\ peer' = [peer EXCEPT !.prevEnd = IF @ = "stored" THEN "stored_before" ELSE @]
    /\ self_cache' = EmptyStore
    /\ last' = NoCall
    /\ looked' = {}
    /\ purged' = FALSE
    /\ tmp' = NoFile
    /\ UNCHANGED <<gen, calls>>

\* The process dies while store() is under way.
CrashInStore ==
    /\ phase = "storing"
    /\ phase' = "down"
    /\ prevRun' = self_cache
    /\ prevEnd' = "lost_in_store"
    /\ self_cache' = EmptyStore
    /\ last' = NoCall
    /\ looked' = {}
    /\ purged' = FALSE
    /\ tmp' = NoFile
    /\ UNCHANGED <<file, gen, calls, peer>>

\* What a process holds of its own.
Local ==
    [phase |-> phase, self_cache |-> self_cache, last |-> last,
     looked |-> looked, purged |-> purged, prevRun |-> prevRun,
     prevEnd |-> prevEnd, tmp |-> tmp]

\* The other process runs next: the two share the file and the remote
\* state and nothing else.
Switch ==
    /\ peer' = Local
    /\ phase' = peer.phase
    /\ self_cache' = peer.self_cache
    /\ last' = peer.last
    /\ looked' = peer.looked
    /\ purged' = peer.purged
    /\ prevRun' = peer.prevRun
    /\ prevEnd' = peer.prevEnd
    /\ tmp' = peer.tmp
    /\ UNCHANGED <<file, gen, calls>>

ConcNext ==
    \/ GhRunner_init
    \/ store_write_temp
    \/ store_close_temp
    \/ store_rename
    \/ ExitUnfinalized
    \/ CrashInStore
    \/ Switch
    \/ PrOpen
    \/ WorkflowList

ConcSpec == Init /\ [][ConcNext]_vars

\* =============================================================== claims
\* The undecorated body of method op.
Body(op, st, a, env) ==
    CASE op = "help" -> help_f(st, a, env)
      [] op = "pr_get" -> pr_get_f(st, a, env)
      [] op = "pr_list" -> pr_list_f(st, a, env)
      [] op = "pr_approve" -> pr_approve_f(st, a, env)
      [] op = "pr_open" -> pr_open_f(st, a, env)
      [] op = "pr_merge" -> pr_merge_f(st, a, env)
      [] op = "pr_update_branch" -> pr_update_branch_f(st, a, env)
      [] op = "_fetch_action_job_by_id" -> _fetch_action_job_by_id_f(st, a, env)
      [] op = "action_run_rerun" -> action_run_rerun_f(st, a, env)
      [] op = "workflow_list" -> workflow_list_f(st, a, env)
      [] op = "workflow_run" -> workflow_run_f(st, a, env)
      [] op = "fetch_draft_release" -> fetch_draft_release_f(st, a, env)
      [] op = "fetch_latest_release" -> fetch_latest_release_f(st, a, env)
      [] op = "release_publish" -> release_publish_f(st, a, env)

\* Call record c is what one execution of its method's body on store st and
\* remote generation g yields, for some outcome of the commands it runs.
RanBody(c, st, g) ==
    \E ok \in BOOLEAN, ok2 \in BOOLEAN, draft \in BOOLEAN :
        LET r == Body(c.op, st, c.a, Env(ok, ok2, draft, g))
        IN  /\ c.ok = r.ok
            /\ c.value = r.value
            /\ c.invoked = r.invoked
            /\ c.ran = r.ran

\* This step is a call on the runner; last' is the call.
IsCall == calls' = calls + 1

Key(c) == build(c.op, c.a)

\* C1: when the key of a read-through call is in the store, the call
\* returns the stored value and neither the method's body nor any external
\* command runs.
C1_HitServesStoredValue ==
    [][(/\ IsCall
        /\ last'.op \in ReadThroughOps
        /\ Key(last') \in DOMAIN self_cache)
       => (/\ last'.ok
           /\ last'.value = self_cache[Key(last')]
           /\ last'.invoked = <<>>
           /\ last'.ran = <<>>
           /\ self_cache' = self_cache)]_vars

\* A read-through call was served from the store while the remote state had
\* moved on since the value was read.
C1_Witness ==
    /\ last.op \in ReadThroughOps
    /\ last.ok
    /\ last.invoked = <<>>
    /\ last.ran = <<>>
    /\ Key(last) \in DOMAIN self_cache
    /\ last.value = self_cache[Key(last)]
    /\ last.value.t = "dict"
    /\ last.value.g < gen

\* C2, as stated: two read-through calls in a row with the same arguments
\* invoke the method's body at most once between them, and the second
\* returns what the first did.
C2_TwiceInvokesAtMostOnce ==
    [][(/\ IsCall
        /\ last.op \in ReadThroughOps
        /\ last'.op = last.op
        /\ last'.a = last.a)
       => (/\ Len(last.invoked) + Len(last'.invoked) <= 1
           /\ last'.ok = last.ok
           /\ last'.value = last.value)]_vars

\* C2, amended: when the first of two read-through calls in a row with the
\* same arguments returns, the body is invoked at most once between them
\* (never by the second), and the second returns the value the first
\* returned, None included.
C2_TwiceAfterReturn ==
    [][(/\ IsCall
        /\ last.op \in ReadThroughOps
        /\ last.ok
        /\ last'.op = last.op
        /\ last'.a = last.a)
       => (/\ Len(last.invoked) + Len(last'.invoked) <= 1
           /\ last'.invoked = <<>>
           /\ last'.ran = <<>>
           /\ last'.ok
           /\ last'.value = last.value)]_vars

\* fetch_draft_release was called twice in a row on a repository without a
\* draft: the second call returned the None the first had returned, and
\* its body did not run.
C2_Witness ==
    /\ last.op = "fetch_draft_release"
    /\ last.after = "same_returned"
    /\ last.ok
    /\ last.value = NoneVal
    /\ last.invoked = <<>>

\* C3: on a miss whose body returns, the body ran exactly once, the store
\* afterwards is the store before plus the key mapped to the result, and
\* the call returns that result.
C3_MissStoresResult ==
    [][(/\ IsCall
        /\ last'.op \in ReadThroughOps
        /\ Key(last') \notin DOMAIN self_cache
        /\ last'.ok)
       => (/\ last'.invoked = <<last'.op>>
           /\ Len(last'.ran) = 1
           /\ RanBody(last', self_cache, gen)
           /\ self_cache' = Put(self_cache, Key(last'), last'.value)
           /\ \A k \in DOMAIN self_cache : self_cache'[k] = self_cache[k])]_vars

\* A miss stored its result beside an entry the store already held.
C3_Witness ==
    /\ last.op \in ReadThroughOps
    /\ last.ok
    /\ last.invoked = <<last.op>>
    /\ Key(last) \in DOMAIN self_cache
    /\ self_cache[Key(last)] = last.value
    /\ Cardinality(DOMAIN self_cache) >= 2

\* C4: when the body of a read-through call raises, the exception reaches
\* the caller, the store is as before with no entry under the key, and the
\* next call with the same arguments invokes the body again.
C4_FailureNotCached ==
    [][/\ (/\ IsCall
           /\ last'.op \in ReadThroughOps
           /\ ~last'.ok)
          => (/\ last'.value = CalledProcessError
              /\ RanBody(last', self_cache, gen)
              /\ self_cache' = self_cache
              /\ Key(last') \notin DOMAIN self_cache')
       /\ (/\ IsCall
           /\ last.op \in ReadThroughOps
           /\ ~last.ok
           /\ last'.op = last.op
           /\ last'.a = last.a)
          => (/\ last'.invoked = <<last'.op>>
              /\ Len(last'.ran) = 1)]_vars

\* A read-through call raised, and the retry with the same arguments ran
\* the body once more and returned.
C4_Witness ==
    /\ last.op \in ReadThroughOps
    /\ last.after = "same_raised"
    /\ last.ok
    /\ last.invoked = <<last.op>>
    /\ Key(last) \in DOMAIN self_cache

\* C5: every call of an invalidating method executes the method's body
\* exactly once, whatever the store holds, the empty store included.
C5_InvalidationAlwaysExecutes ==
    [][(/\ IsCall
        /\ last'.op \in InvalidationOps)
       => (/\ Len(SelectSeq(last'.invoked, LAMBDA f : f = last'.op)) = 1
           /\ last'.invoked[1] = last'.op
           /\ last'.ran # <<>>
           /\ RanBody(last', self_cache, gen))]_vars

\* The first call of a behaviour, on the empty store, was an invalidating
\* method, and its command ran and changed the remote state.
C5_Witness ==
    /\ calls = 1
    /\ last.op \in InvalidationOps
    /\ last.ok
    /\ Len(last.ran) = 1
    /\ gen = 1
    /\ file.kind # "json"

\* C6: when an invalidating method has returned, the store is empty,
\* whatever it held before and whatever its body inserted meanwhile.
C6_InvalidationPurges ==
    (last.op \in InvalidationOps /\ last.ok) => self_cache = EmptyStore

\* action_run_rerun returned after its body fetched the job through the
\* read-through wrapper (a miss, which inserted the job) and reran it.
C6_Witness ==
    /\ last.op = "action_run_rerun"
    /\ last.ok
    /\ last.invoked = <<"action_run_rerun", "_fetch_action_job_by_id">>
    /\ Len(last.ran) = 2
    /\ self_cache = EmptyStore
    /\ calls = 3

\* C7, as stated: when the body of an invalidating method raises, the store
\* after the call is identical to the store before it.
C7_FailureLeavesStoreIdentical ==
    [][(/\ IsCall
        /\ last'.op \in InvalidationOps
        /\ ~last'.ok)
       => (/\ last'.value = CalledProcessError
           /\ self_cache' = self_cache)]_vars

\* The job action_run_rerun's body looks up: _fetch_action_job_by_id(repo,
\* number).
JobCall(c) ==
    [op |-> "_fetch_action_job_by_id",
     a |-> Form(<<Bind(c.op, c.a)[1], Bind(c.op, c.a)[2]>>, <<>>)]

\* C7, amended: when the body of an invalidating method raises, the
\* exception reaches the caller and nothing is purged: every entry held
\* before is still held unchanged.  The store is identical to the one
\* before, except that action_run_rerun has added the job it fetched when
\* that lookup missed and succeeded before the rerun command failed.
C7_FailureDoesNotPurge ==
    [][(/\ IsCall
        /\ last'.op \in InvalidationOps
        /\ ~last'.ok)
       => (/\ last'.value = CalledProcessError
           /\ \A k \in DOMAIN self_cache :
                 k \in DOMAIN self_cache' /\ self_cache'[k] = self_cache[k]
           /\ IF last'.op = "action_run_rerun" /\ Len(last'.ran) = 2
              THEN /\ Key(JobCall(last')) \notin DOMAIN self_cache
                   /\ DOMAIN self_cache' = DOMAIN self_cache \cup {Key(JobCall(last'))}
                   /\ self_cache'[Key(JobCall(last'))].t = "dict"
              ELSE self_cache' = self_cache)]_vars

\* action_run_rerun raised at its rerun command after fetching the job: the
\* store kept an older entry and gained the job.
C7_Witness ==
    /\ last.op = "action_run_rerun"
    /\ ~last.ok
    /\ Len(last.ran) = 2
    /\ Key(JobCall(last)) \in DOMAIN self_cache
    /\ Cardinality(DOMAIN self_cache) >= 2

\* C8: in a run in which an invalidating method has returned, a lookup of
\* a key that no lookup has returned since the latest such return (the
\* first lookup of that key after the mutation) runs the method's body
\* against the current remote state; no stored value is served.
C8_NoStaleHitAfterMutation ==
    [][(/\ IsCall
        /\ last'.op \in ReadThroughOps
        /\ purged
        /\ Key(last') \notin looked)
       => (/\ last'.invoked = <<last'.op>>
           /\ Len(last'.ran) = 1
           /\ RanBody(last', self_cache, gen))]_vars

\* A key the run had loaded from the file was looked up after an
\* invalidating method returned, and the body ran and read the remote
\* state as the mutation left it.
C8_Witness ==
    /\ phase = "up"
    /\ purged
    /\ last.op = "pr_get"
    /\ file.kind = "json"
    /\ Key(last) \in DOMAIN file.obj
    /\ last.ok
    /\ last.invoked = <<"pr_get">>
    /\ last.value.g = gen
    /\ gen > file.obj[Key(last)].g

\* C9: a runner created after a run whose finalizer stored the cache holds,
\* right after loading, the map that run held, key for key and value for
\* value.
C9_StoreLoadRoundTrip ==
    (phase = "up" /\ last.op = "" /\ prevEnd = "stored") => self_cache = prevRun

\* A fresh runner loaded a stored map with a dict, a list and a None in it.
C9_Witness ==
    /\ phase = "up"
    /\ last.op = ""
    /\ prevEnd = "stored"
    /\ self_cache = prevRun
    /\ \E k \in DOMAIN self_cache : self_cache[k].t = "dict"
    /\ \E k \in DOMAIN self_cache : self_cache[k].t = "list"
    /\ \E k \in DOMAIN self_cache : self_cache[k].t = "NoneType"

\* C10, as stated: a result the previous run held when it ended is served
\* as a hit in this run, as long as this run has purged nothing: the body
\* does not run and the value is the one the previous run held.
C10_MemoizedAcrossRuns ==
    [][(/\ IsCall
        /\ last'.op \in ReadThroughOps
        /\ ~purged
        /\ Key(last') \in DOMAIN prevRun)
       => (/\ last'.ok
           /\ last'.invoked = <<>>
           /\ last'.ran = <<>>
           /\ last'.value = prevRun[Key(last')])]_vars

\* After a run whose finalizer stored the cache: a result that run held is
\* served as a hit in this run, as long as this run has purged nothing.
C10_MemoizedAfterStore ==
    [][(/\ IsCall
        /\ last'.op \in ReadThroughOps
        /\ ~purged
        /\ prevEnd = "stored"
        /\ Key(last') \in DOMAIN prevRun)
       => (/\ last'.ok
           /\ last'.invoked = <<>>
           /\ last'.ran = <<>>
           /\ last'.value = prevRun[Key(last')])]_vars

\* The first call of a run was a lookup the previous run had cached and
\* stored: it was served without running its body, although the remote
\* state had changed since.
C10_Witness ==
    /\ phase = "up"
    /\ prevEnd = "stored"
    /\ ~purged
    /\ last.op \in ReadThroughOps
    /\ last.after = "other"
    /\ looked = {Key(last)}
    /\ Key(last) \in DOMAIN prevRun
    /\ last.ok
    /\ last.invoked = <<>>
    /\ last.value = prevRun[Key(last)]
    /\ last.value.t = "dict"
    /\ last.value.g < gen

\* C11, as stated: load() runs when the runner is made, before any call,
\* and every end of a run, however it comes about, leaves in the file the
\* map the run held.
C11_LoadOnceStoreOnEveryExit ==
    [][/\ (phase = "down" /\ phase' = "up") => self_cache' = Cache_load(file)
       /\ IsCall => phase = "up"
       /\ (phase = "up" /\ phase' = "down") => file' = Cache_store(self_cache)]_vars

\* C12, as stated: while a runner lives, its Cache is the only one of the
\* process, so nothing but the runner's own store() writes the file.
C12_OneStorePerProcess ==
    [][(phase = "up" /\ phase' = "up") => file' = file]_vars

\* C14: a runner can be made whatever the file holds, and one made from an
\* absent or unparsable file starts with the empty store.
C14_LoadNeverFails ==
    /\ phase = "down" => ENABLED GhRunner_init
    /\ (phase = "up" /\ last.op = "" /\ prevEnd = "none" /\ file.kind # "json")
          => self_cache = EmptyStore

\* A runner made from an unparsable file served a lookup: the body ran and
\* the result was cached.
C14_Witness ==
    /\ phase = "up"
    /\ file.kind = "malformed"
    /\ last.op \in ReadThroughOps
    /\ last.ok
    /\ last.invoked = <<last.op>>
    /\ self_cache = Put(EmptyStore, Key(last), last.value)

\* C19, as stated: every call of pr_open runs the command that opens the
\* PR in the browser.
C19_PrOpenAlwaysOpens ==
    [][(IsCall /\ last'.op = "pr_open")
       => (/\ last'.invoked = <<"pr_open">>
           /\ Len(last'.ran) = 1
           /\ RanBody(last', self_cache, gen))]_vars

\* The methods that carry neither decorator.
UnwrappedOps == {"help", "workflow_run", "fetch_latest_release"}

\* C20: a call of a method without decorator executes the method's body,
\* one command, and leaves the store as it was, whether the command
\* succeeds or fails.
C20_UnwrappedRunsAndKeepsStore ==
    [][(IsCall /\ last'.op \in UnwrappedOps)
       => (/\ last'.invoked = <<last'.op>>
           /\ Len(last'.ran) = 1
           /\ RanBody(last', self_cache, gen)
           /\ self_cache' = self_cache
           /\ looked' = looked
           /\ purged' = purged)]_vars

\* workflow_run returned, the remote state changed with it, and a lookup
\* cached before is still in the store.
C20_Witness ==
    /\ last.op = "workflow_run"
    /\ last.ok
    /\ Len(last.ran) = 1
    /\ ~purged
    /\ \E k \in DOMAIN self_cache : self_cache[k].t = "dict" /\ self_cache[k].g < gen

\* The arguments a call passes, each with the parameter it is passed to.
Passed(op, a) ==
    {<<Params(op)[i], a.pos[i]>> : i \in 1..Len(a.pos)}
    \cup {<<a.named[i][1], a.named[i][2]>> : i \in 1..Len(a.named)}

\* Two ways of writing a call of op that pass the same values to the same
\* parameters, an argument passed as None (the default of every optional
\* parameter of the runner) counting as one left out.
SameArguments(op, a, b) ==
    {x \in Passed(op, a) : x[2] # PyNone} = {x \in Passed(op, b) : x[2] # PyNone}

\* C15: when a read-through call returned and the next call is the same
\* method passing the same values to the same parameters, however it is
\* written (named arguments in another order, a default left out or
\* passed), both have the same key and the second is served the first's
\* value without running the body.
C15_KeyCanonical ==
    [][(/\ IsCall
        /\ last'.op \in ReadThroughOps
        /\ last.op = last'.op
        /\ last.ok
        /\ SameArguments(last.op, last.a, last'.a))
       => (/\ Key(last') = Key(last)
           /\ last'.ok
           /\ last'.invoked = <<>>
           /\ last'.ran = <<>>
           /\ last'.value = last.value)]_vars

\* The second call of a first run was pr_list(repo, filter=None,
\* merge_state=None), written otherwise than the call before it, and it was
\* served from the store.
C15_Witness ==
    /\ calls = 2
    /\ prevEnd = "none"
    /\ last.op = "pr_list"
    /\ last.a \in {Form(<<r>>, <<<<"filter", PyNone>>, <<"merge_state", PyNone>>>>) :
                      r \in Repos}
    /\ last.after = "other"
    /\ last.ok
    /\ last.invoked = <<>>
    /\ DOMAIN self_cache = {Key(last)}

\* The read-through calls whose keys can be derived.
KeyedCalls ==
    {c \in ({[op |-> "pr_get", a |-> a] : a \in PrGetWritten}
            \cup {[op |-> "pr_list", a |-> a] : a \in PrListWritten}
            \cup {[op |-> "pr_open", a |-> a] : a \in OneNumber}
            \cup {[op |-> "_fetch_action_job_by_id", a |-> a] : a \in OneNumber}) :
        Canonicalizable(c.op, c.a)}

\* C16: a call whose key is in the store shares that key only with calls
\* of the same method that pass the same arguments, and what the store
\* holds under the key is a result of that method on those arguments.
C16_NoCollisions ==
    \A c \in KeyedCalls :
        LET k == Key(c)
        IN  k \in DOMAIN self_cache
            => /\ \A e \in KeyedCalls :
                     Key(e) = k => (e.op = c.op /\ SameArguments(c.op, c.a, e.a))
               /\ \E draft \in BOOLEAN :
                     Body(c.op, self_cache, c.a,
                          Env(TRUE, TRUE, draft, self_cache[k].g)).value
                     = self_cache[k]

\* pr_get, pr_open and _fetch_action_job_by_id were called with the same
\* repo and number, and the store holds the three results apart.
C16_Witness ==
    \E a \in OneNumber :
        /\ Key([op |-> "pr_get", a |-> a]) \in DOMAIN self_cache
        /\ Key([op |-> "pr_open", a |-> a]) \in DOMAIN self_cache
        /\ Key([op |-> "_fetch_action_job_by_id", a |-> a]) \in DOMAIN self_cache
        /\ Cardinality(DOMAIN self_cache) = 3

\* A call passes an argument that is not a str, an int, a bool or None.
HasUnsupported(op, a) ==
    \E x \in Passed(op, a) : x[2].t \notin {"str", "int", "bool", "NoneType"}

\* C17: a read-through call that passes an argument of an unsupported type
\* raises UnsupportedArgumentType, neither the body nor any command runs,
\* and the store is as before.
C17_UnsupportedArgumentRejected ==
    [][(/\ IsCall
        /\ last'.op \in ReadThroughOps
        /\ HasUnsupported(last'.op, last'.a))
       => (/\ ~last'.ok
           /\ last'.value = UnsupportedArgumentType
           /\ last'.invoked = <<>>
           /\ last'.ran = <<>>
           /\ self_cache' = self_cache)]_vars

\* pr_get was called with a list for the number on a runner whose store
\* held an entry: the call raised and the entry is still there.
C17_Witness ==
    /\ last.op = "pr_get"
    /\ HasUnsupported(last.op, last.a)
    /\ ~last.ok
    /\ last.value = UnsupportedArgumentType
    /\ last.invoked = <<>>
    /\ self_cache # EmptyStore

\* C13: whatever step store() or a crash takes, the persisted file is never
\* partly written: it holds what it held before, or the whole map of the
\* process that is storing.
C13_StoreAtomic ==
    [][/\ file'.kind # "partial"
       /\ file' # file => (phase = "storing" /\ file' = Cache_store(self_cache))]_vars

\* A process died while storing a map that differs from the file's, and
\* the file still holds the entries stored before.
C13_Witness ==
    /\ phase = "down"
    /\ prevEnd = "lost_in_store"
    /\ file.kind = "json"
    /\ DOMAIN file.obj # {}
    /\ Cache_load(file) # prevRun

\* C18: with two processes on the same file, the file holds exactly the
\* map of the process whose store() finished last, neither merged with
\* what an earlier store() wrote nor partly written.
C18_LastStoreWins ==
    /\ file.kind \in {"absent", "malformed", "json"}
    /\ prevEnd = "stored" => file = Cache_store(prevRun)
    /\ peer.prevEnd = "stored" => file = Cache_store(peer.prevRun)

\* Two processes ran at the same time, each cached one lookup and stored:
\* the file holds the later one's entry and the earlier one's is lost.
C18_Witness ==
    /\ calls = 2
    /\ prevEnd = "stored"
    /\ peer.prevEnd = "stored_before"
    /\ prevRun # EmptyStore
    /\ peer.prevRun # EmptyStore
    /\ DOMAIN prevRun \cap DOMAIN peer.prevRun = {}
    /\ file = Cache_store(prevRun)
    /\ \A k \in DOMAIN peer.prevRun : k \notin DOMAIN file.obj

====
